---- MODULE Spec2Model ----
(***************************************************************************)
(* Model of the scheduling engine of src/processLoaded.py: Task,           *)
(* Processor, the four distribution strategies, LoadBalancer and the       *)
(* processor-count / algorithm / speed controls of LoadBalancerApp.        *)
(*                                                                         *)
(* Sequences are 1-based here: the processor at Python index k is          *)
(* processors[k + 1], and its id field keeps the Python value k.           *)
(* Execution times and speeds are integers.  Loads are Python ints or      *)
(* Python floats (load_type): float loads, and what is computed from them, *)
(* are binary64 values with the rounding of every operation.  A quotient   *)
(* of two ints that the code sorts by is kept as the exact fraction (its   *)
(* rounding to a double keeps the order); the adaptive score, a product of *)
(* rounded quotients, is computed in binary64 as Python does.              *)
(***************************************************************************)
EXTENDS Integers, Sequences, FiniteSets

\* ---------------------------------------------------------------- bounds
MaxProcs == 3
MaxTasks == 3
MaxCycles == 2
MaxControls == 2
MaxLongCycles == 103
MaxLongTasks == 1
MaxLongProcs == 1
MaxTicks == 3
MaxAppTasks == 2
MaxAppCycles == 2
MaxResets == 1
MaxAdaptiveTasks == 4
MaxAdaptiveProcs == 2
MaxAdaptiveCycles == 1
MaxFloatTasks == 2
MaxFloatProcs == 2
MaxFloatCycles == 2

\* ------------------------------------------------------ program constants
DefaultCapacity == 100
DefaultSpeed == 1
HistoryCap == 100
RecentWindow == 10
RecentScale == 200
AppProcessors == 4

Algorithms == {"round_robin", "least_loaded", "weighted", "adaptive"}

\* inputs the operations are driven with.  These loads are whole numbers, the
\* int loads add_task is called with: sums and differences of them are exact.
\* The loads with a fraction, whose sums round, are those of FloatLoadSet.
LoadSet == {40, 70}
ExecSet == {2}
SpeedSet == {0, 1, 2}
LongLoadSet == {40}
LongExecSet == {5}
\* loads whose scores come out equal as fractions and different as doubles
AdaptiveLoadSet == {10, 60, 70, 80}
\* what generate_tasks returns, when it returns a task: a size of whole value
AppLoadSet == {70}
AppExecSet == {2}
\* speeds the scale of a processor display is moved to
AppSpeedSet == {1, 2}
\* what algorithm_var can hold when change_algorithm copies it: any string
NameSet == Algorithms \cup {"fastest"}

VARIABLES
    processors,       \* LoadBalancer.processors: sequence of Processor records
    task_queue,       \* LoadBalancer.task_queue: FIFO of Task records
    completed_tasks,  \* LoadBalancer.completed_tasks
    task_id_counter,  \* LoadBalancer.task_id_counter
    algorithm,        \* LoadBalancer.algorithm
    dispatch,         \* one entry per task dequeued by the last distribute_tasks
    completed,        \* list returned by the last process_cycle
    removed_tasks,    \* local removed_tasks of the last change_processors
    raised,           \* exception the last handler ended with, or "none"
    cycles,           \* number of process_cycle calls so far
    controls,         \* number of control signals (count, algorithm, speed) so far
    running,          \* LoadBalancer.running of the application's LoadBalancer
    paused,           \* LoadBalancer.paused of the application's LoadBalancer
    load_balancer,    \* which LoadBalancer instance LoadBalancerApp.load_balancer is
    simulation_thread, \* the thread running run_simulation: position and locals
    skipped,          \* an iteration of run_simulation has found paused set
    handler,          \* the change_processors call in progress on the Tk thread
    load_type         \* the Python type of the loads add_task is given: "int" or "float"

\* the flags and the application's side, left alone by the LoadBalancer's
\* own operations
flags == <<running, paused, load_balancer, skipped, handler, load_type>>

vars == <<processors, task_queue, completed_tasks, task_id_counter, algorithm,
          dispatch, completed, removed_tasks, raised, cycles, controls,
          running, paused, load_balancer, simulation_thread, skipped, handler,
          load_type>>

\* ------------------------------------------------------------- sequences
RECURSIVE SumSeq(_)
SumSeq(s) == IF s = <<>> THEN 0 ELSE Head(s) + SumSeq(Tail(s))

\* s[-n:]
LastN(s, n) == IF Len(s) <= n THEN s ELSE SubSeq(s, Len(s) - n + 1, Len(s))

\* s[:n]
FirstN(s, n) == IF Len(s) <= n THEN s ELSE SubSeq(s, 1, n)

RECURSIVE Concat(_)
Concat(ss) == IF ss = <<>> THEN <<>> ELSE Head(ss) \o Concat(Tail(ss))

TaskLoads(ts) == [i \in 1..Len(ts) |-> ts[i].load]
IdSet(ts) == {ts[i].id : i \in 1..Len(ts)}

\* ------------------------------------------------- binary64 arithmetic
\* Python floats are IEEE 754 doubles and every float operation rounds its
\* exact result to 53 significant bits, ties to even.  A natural number of any
\* size is the sequence of its digits in base Limb, least significant first,
\* without leading zeros (0 is <<>>); a double is <<m, e, s>>: the value
\* m * 2^e with 2^52 <= m < 2^53 (m = e = 0 for 0.0), negated when the sign s
\* is 1; the sign of 0.0 is 0 (no operation here yields -0.0).
Limb == 16384
LimbBits == 14
Mantissa == 53

RECURSIVE Pow2(_)
Pow2(k) == IF k = 0 THEN 1 ELSE 2 * Pow2(k - 1)

RECURSIVE BigOf(_)
BigOf(n) == IF n = 0 THEN <<>> ELSE <<n % Limb>> \o BigOf(n \div Limb)

RECURSIVE BigTrim(_)
BigTrim(x) ==
    IF x = <<>> THEN <<>>
    ELSE IF x[Len(x)] = 0 THEN BigTrim(SubSeq(x, 1, Len(x) - 1))
    ELSE x

\* x * k + carry for a digit-sized k
RECURSIVE BigMulSmall(_, _, _)
BigMulSmall(x, k, carry) ==
    IF x = <<>> THEN BigOf(carry)
    ELSE LET v == Head(x) * k + carry
         IN <<v % Limb>> \o BigMulSmall(Tail(x), k, v \div Limb)

\* x - y - borrow for x >= y + borrow, with the leading zeros it leaves
RECURSIVE BigSub(_, _, _)
BigSub(x, y, borrow) ==
    IF x = <<>> THEN <<>>
    ELSE LET v == Head(x) - (IF y = <<>> THEN 0 ELSE Head(y)) - borrow
         IN <<(v + Limb) % Limb>> \o BigSub(Tail(x), IF y = <<>> THEN <<>> ELSE Tail(y),
                                            IF v < 0 THEN 1 ELSE 0)

RECURSIVE BigAdd(_, _, _)
BigAdd(x, y, carry) ==
    IF x = <<>> /\ y = <<>> THEN BigOf(carry)
    ELSE LET a == IF x = <<>> THEN 0 ELSE Head(x)
             b == IF y = <<>> THEN 0 ELSE Head(y)
             v == a + b + carry
         IN <<v % Limb>> \o BigAdd(IF x = <<>> THEN <<>> ELSE Tail(x),
                                   IF y = <<>> THEN <<>> ELSE Tail(y), v \div Limb)

\* x * Limb^n
BigShiftLimbs(x, n) == IF x = <<>> THEN <<>> ELSE [i \in 1..n |-> 0] \o x

RECURSIVE BigMul(_, _)
BigMul(x, y) ==
    IF x = <<>> \/ y = <<>> THEN <<>>
    ELSE BigAdd(BigMulSmall(x, Head(y), 0), BigShiftLimbs(BigMul(x, Tail(y)), 1), 0)

\* the digits i..1 of x divided by d < 2^17, after a remainder r of the
\* higher digits: quotient digits, least significant first, and remainder
RECURSIVE BigDivFrom(_, _, _, _)
BigDivFrom(x, i, d, r) ==
    IF i = 0 THEN [q |-> <<>>, r |-> r]
    ELSE LET v == r * Limb + x[i]
             rest == BigDivFrom(x, i - 1, d, v % d)
         IN [q |-> Append(rest.q, v \div d), r |-> rest.r]

Trimmed(res) == [q |-> BigTrim(res.q), r |-> res.r]

BigDivSmall(x, d) == Trimmed(BigDivFrom(x, Len(x), d, 0))

RECURSIVE BitsOf(_)
BitsOf(n) == IF n = 0 THEN 0 ELSE 1 + BitsOf(n \div 2)

BigBits(x) == IF x = <<>> THEN 0 ELSE (Len(x) - 1) * LimbBits + BitsOf(x[Len(x)])

\* x * 2^k
BigShiftLeft(x, k) ==
    BigShiftLimbs(BigMulSmall(x, Pow2(k % LimbBits), 0), k \div LimbBits)

\* x \div 2^k, and whether a non-zero bit was shifted out
Shifted(low, res) ==
    [q |-> res.q, lost |-> (res.r # 0 \/ \E i \in 1..Len(low) : low[i] # 0)]

BigShiftRight(x, k) ==
    LET n == k \div LimbBits IN
    Shifted(IF n >= Len(x) THEN x ELSE SubSeq(x, 1, n),
            BigDivSmall(IF n >= Len(x) THEN <<>> ELSE SubSeq(x, n + 1, Len(x)),
                        Pow2(k % LimbBits)))

RECURSIVE BigLessFrom(_, _, _)
BigLessFrom(x, y, i) ==
    IF i = 0 THEN FALSE
    ELSE IF x[i] # y[i] THEN x[i] < y[i]
    ELSE BigLessFrom(x, y, i - 1)

BigLess(x, y) ==
    IF Len(x) # Len(y) THEN Len(x) < Len(y) ELSE BigLessFrom(x, y, Len(x))

DoubleZero == <<<<>>, 0, 0>>

\* x with the sign s
Signed(x, s) == <<x[1], x[2], IF x[1] = <<>> THEN 0 ELSE s>>

\* -x
Negated(x) == Signed(x, 1 - x[3])

\* the double nearest to n * 2^e (to n * 2^e plus a little, when inexact says
\* that something below the last bit of n was left out), ties to even
\* m of 53 bits, or of 54 after the carry of a rounding up
Carried(m, e) ==
    IF BigBits(m) > Mantissa THEN <<BigShiftRight(m, 1).q, e + 1, 0>> ELSE <<m, e, 0>>

\* kept: the leading 53 bits and whether the bit after them is set; sticky:
\* whether anything follows that bit
RoundKept(kept, sticky, e) ==
    Carried(IF kept.lost /\ (sticky \/ kept.q[1] % 2 = 1)
            THEN BigAdd(kept.q, <<1>>, 0)
            ELSE kept.q, e)

\* half: the leading 54 bits and whether a bit after them is set
RoundHalf(half, e, inexact) ==
    RoundKept(BigShiftRight(half.q, 1), half.lost \/ inexact, e)

RoundBits(n, bits, e, inexact) ==
    IF n = <<>> THEN DoubleZero
    ELSE IF bits <= Mantissa
    THEN <<BigShiftLeft(n, Mantissa - bits), e - (Mantissa - bits), 0>>
    ELSE RoundHalf(BigShiftRight(n, bits - Mantissa - 1), e + bits - Mantissa, inexact)

RoundToDouble(n, e, inexact) == RoundBits(n, BigBits(n), e, inexact)

\* float(n) for an int 0 <= n < 2^31
DoubleOf(n) == RoundToDouble(BigOf(n), 0, FALSE)

\* a / b for ints a >= 0 and 0 < b < 2^17: the correctly rounded quotient
Quotient == 72

RoundQuotient(res, e) == RoundToDouble(res.q, e, res.r # 0)

IntDiv(a, b) ==
    RoundQuotient(BigDivSmall(BigShiftLeft(BigOf(a), Quotient), b), 0 - Quotient)

\* x / b for a double x and an int 0 < b < 2^17
Guard == 28

DoubleDiv(x, b) ==
    Signed(RoundQuotient(BigDivSmall(BigShiftLeft(x[1], Guard), b), x[2] - Guard), x[3])

DoubleMul(x, y) ==
    Signed(RoundToDouble(BigMul(x[1], y[1]), x[2] + y[2], FALSE), (x[3] + y[3]) % 2)

\* the smaller exponent of two doubles, 0.0 having none
MinExp(x, y) ==
    IF x[1] = <<>> THEN y[2]
    ELSE IF y[1] = <<>> THEN x[2]
    ELSE IF x[2] < y[2] THEN x[2] ELSE y[2]

\* |x| in units of 2^e, for e not above the exponent of x
Aligned(x, e) == IF x[1] = <<>> THEN <<>> ELSE BigShiftLeft(x[1], x[2] - e)

\* the double nearest to the sum of a * 2^e with sign sa and b * 2^e with sign sb
SumAt(a, sa, b, sb, e) ==
    IF sa = sb THEN Signed(RoundToDouble(BigAdd(a, b, 0), e, FALSE), sa)
    ELSE IF BigLess(a, b) THEN Signed(RoundToDouble(BigTrim(BigSub(b, a, 0)), e, FALSE), sb)
    ELSE Signed(RoundToDouble(BigTrim(BigSub(a, b, 0)), e, FALSE), sa)

\* x + y
DoubleAdd(x, y) ==
    SumAt(Aligned(x, MinExp(x, y)), x[3], Aligned(y, MinExp(x, y)), y[3], MinExp(x, y))

\* x - y
DoubleSub(x, y) == DoubleAdd(x, Negated(y))

\* 1 + x
OnePlus(x) == DoubleAdd(DoubleOf(1), x)

\* |x| < |y|
MagnitudeLess(x, y) ==
    IF y[1] = <<>> THEN FALSE
    ELSE IF x[1] = <<>> THEN TRUE
    ELSE IF x[2] # y[2] THEN x[2] < y[2]
    ELSE BigLess(x[1], y[1])

\* x < y
DoubleLess(x, y) ==
    IF x[3] # y[3] THEN x[3] = 1
    ELSE IF x[3] = 1 THEN MagnitudeLess(y, x)
    ELSE MagnitudeLess(x, y)

\* ------------------------------------------------------------ load numbers
\* A load is a Python int or a Python float, and so are the sums, differences
\* and history samples made of loads.  With int loads they are integers and
\* the arithmetic is exact.  With float loads every one of them is a double,
\* the 0 a Processor starts from included (0 + x and 0.0 + x are the same
\* float), and each operation rounds.
Float == load_type = "float"

\* the int n among the loads
Number(n) == IF Float THEN DoubleOf(n) ELSE n

Plus(x, y) == IF Float THEN DoubleAdd(x, y) ELSE x + y

Minus(x, y) == IF Float THEN DoubleSub(x, y) ELSE x - y

\* x >= y
AtLeast(x, y) == IF Float THEN ~DoubleLess(x, y) ELSE x >= y

\* x / b for an int b > 0
Quot(x, b) == IF Float THEN DoubleDiv(x, b) ELSE IntDiv(x, b)

\* sum(s): from the int 0, left to right
RECURSIVE SumFrom(_, _)
SumFrom(acc, s) == IF s = <<>> THEN acc ELSE SumFrom(Plus(acc, Head(s)), Tail(s))

sum(s) == SumFrom(Number(0), s)


\* ------------------------------------------------------------------ Task
Task(id, load, execution_time) ==
    [id |-> id, load |-> load, execution_time |-> execution_time,
     remaining_time |-> execution_time,
     ticks |-> 0]      \* ticks: how many process_tasks passes have decremented it

\* ------------------------------------------------------------- Processor
Processor(id) ==
    [id |-> id, capacity |-> DefaultCapacity, processing_speed |-> DefaultSpeed,
     current_load |-> Number(0), tasks |-> <<>>, history |-> <<>>,
     samples |-> <<>>]  \* samples: every value update_history ever recorded

add_task(p, task) ==
    [p EXCEPT !.tasks = Append(@, task), !.current_load = Plus(@, task.load)]

\* list.remove: drops the first element that is the task
RECURSIVE RemoveFirst(_, _)
RemoveFirst(ts, id) ==
    IF ts = <<>> THEN <<>>
    ELSE IF Head(ts).id = id THEN Tail(ts)
    ELSE <<Head(ts)>> \o RemoveFirst(Tail(ts), id)

remove_task(p, task) ==
    IF task.id \in IdSet(p.tasks)
    THEN [p EXCEPT !.tasks = RemoveFirst(@, task.id),
                   !.current_load = Minus(@, task.load)]
    ELSE p

\* update_history that trims to the oldest 100 samples (history[:100])
update_history_keeps_oldest(p) ==
    LET h == Append(p.history, p.current_load) IN
    [p EXCEPT !.history = IF Len(h) > HistoryCap THEN FirstN(h, HistoryCap) ELSE h,
              !.samples = Append(@, p.current_load)]

update_history(p) ==
    LET h == Append(p.history, p.current_load) IN
    [p EXCEPT !.history = IF Len(h) > HistoryCap THEN LastN(h, HistoryCap) ELSE h,
              !.samples = Append(@, p.current_load)]

\* the completed tasks stay on the processor
RemoveAll_leaves_tasks(p, ts) == p

RECURSIVE RemoveAll(_, _)
RemoveAll(p, ts) == IF ts = <<>> THEN p ELSE RemoveAll(remove_task(p, Head(ts)), Tail(ts))

\* task.remaining_time -= self.processing_speed
Tick(task, processing_speed) ==
    [task EXCEPT !.remaining_time = @ - processing_speed, !.ticks = @ + 1]

\* the first loop of process_tasks: every owned task is decremented by the speed
Decrement(p) == [i \in 1..Len(p.tasks) |-> Tick(p.tasks[i], p.processing_speed)]

\* completion test with < in place of <=
Finished_strict(t) == t.remaining_time < 0

Finished(t) == t.remaining_time <= 0

\* returns the processor after the pass and the list of completed tasks
\* process_tasks that records the load twice
process_tasks_samples_twice(p) ==
    LET ticked == Decrement(p)
        done == SelectSeq(ticked, Finished)
        p1 == RemoveAll([p EXCEPT !.tasks = ticked], done)
    IN [proc |-> update_history(update_history(p1)), completed |-> done]

process_tasks(p) ==
    LET ticked == Decrement(p)
        done == SelectSeq(ticked, Finished)
        p1 == RemoveAll([p EXCEPT !.tasks = ticked], done)
    IN [proc |-> update_history(p1), completed |-> done]

\* get_available_capacity that forgets the current load
available_ignores_load(p) == Number(p.capacity)

get_available_capacity(p) == Minus(Number(p.capacity), p.current_load)

\* ------------------------------------------------- exact fraction compare
\* a/b < c/d for a, c >= 0 and b, d > 0, without forming a*d or c*b
RECURSIVE FracLess(_, _, _, _)
FracLess(a, b, c, d) ==
    LET q1 == a \div b
        q2 == c \div d
        r1 == a % b
        r2 == c % d
    IN IF q1 # q2 THEN q1 < q2
       ELSE IF r2 = 0 THEN FALSE
       ELSE IF r1 = 0 THEN TRUE
       ELSE FracLess(d, r2, b, r1)

\* key1 < key2 for two sort keys of one kind: exact fractions <<a, b>> (an int
\* is <<a, 1>>) or doubles <<m, e, s>>
KeyLess(k1, k2) ==
    IF Len(k1) = 2 THEN FracLess(k1[1], k1[2], k2[1], k2[2]) ELSE DoubleLess(k1, k2)

\* sorted(..., key=...): stable, so the result is the one insertion sort gives.
\* keys[i] is the key of element i; the result lists the indices in sorted order.
RECURSIVE InsertIdx(_, _, _)
InsertIdx(sortedIdx, i, keys) ==
    IF sortedIdx = <<>> THEN <<i>>
    ELSE IF KeyLess(keys[i], keys[Head(sortedIdx)])
         THEN <<i>> \o sortedIdx
         ELSE <<Head(sortedIdx)>> \o InsertIdx(Tail(sortedIdx), i, keys)

RECURSIVE SortedFrom(_, _, _)
SortedFrom(acc, i, keys) ==
    IF i > Len(keys) THEN acc
    ELSE SortedFrom(InsertIdx(acc, i, keys), i + 1, keys)

Sorted(keys) == SortedFrom(<<>>, 1, keys)

\* ------------------------------------------------ distribution strategies
\* Each strategy returns the processors after the call, the 1-based index of
\* the processor that received the task (0: none did) and the exception raised.
Assigned(procs, k, task) ==
    [procs |-> [procs EXCEPT ![k] = add_task(@, task)], chosen |-> k, raised |-> "none"]

\* the missing choice surfaces as an exception
NotAssigned_raises(procs) == [procs |-> procs, chosen |-> 0, raised |-> "IndexError"]

NotAssigned(procs) == [procs |-> procs, chosen |-> 0, raised |-> "none"]

Raises(procs, exc) == [procs |-> procs, chosen |-> 0, raised |-> exc]

\* the for loop of _round_robin from index i on: first processor with room, 0 if none
RECURSIVE Scan(_, _, _)
Scan(procs, i, task) ==
    IF i > Len(procs) THEN 0
    ELSE IF AtLeast(get_available_capacity(procs[i]), task.load) THEN i
    ELSE Scan(procs, i + 1, task)

\* _round_robin whose fallback is the last processor
round_robin_falls_back_to_last(procs, task) ==
    LET k == Scan(procs, 1, task) IN
    IF k # 0 THEN Assigned(procs, k, task)
    ELSE IF procs # <<>> THEN Assigned(procs, Len(procs), task)
    ELSE NotAssigned(procs)

round_robin(procs, task) ==
    LET k == Scan(procs, 1, task) IN
    IF k # 0 THEN Assigned(procs, k, task)
    ELSE IF procs # <<>> THEN Assigned(procs, 1, task)
    ELSE NotAssigned(procs)

\* the shared tail of the three sorting strategies
AssignFirst(procs, order, task) ==
    IF order # <<>> /\ AtLeast(get_available_capacity(procs[order[1]]), task.load)
    THEN Assigned(procs, order[1], task)
    ELSE IF order # <<>> THEN Assigned(procs, order[1], task)
    ELSE NotAssigned(procs)

\* sort key: number of tasks in place of their load
LoadKey_task_count(p) == <<Len(p.tasks), 1>>

LoadKey(p) == IF Float THEN p.current_load ELSE <<p.current_load, 1>>

least_loaded(procs, task) ==
    AssignFirst(procs, Sorted([i \in 1..Len(procs) |-> LoadKey(procs[i])]), task)

\* sort key without the division by the speed
RatioKey_ignores_speed(p) == <<p.current_load, 1>>

\* p.current_load / p.processing_speed
RatioKey(p) ==
    IF Float THEN DoubleDiv(p.current_load, p.processing_speed)
    ELSE <<p.current_load, p.processing_speed>>

ZeroSpeed(procs) == \E i \in 1..Len(procs) : procs[i].processing_speed = 0

weighted_distribution(procs, task) ==
    IF ZeroSpeed(procs) THEN Raises(procs, "ZeroDivisionError")
    ELSE AssignFirst(procs, Sorted([i \in 1..Len(procs) |-> RatioKey(procs[i])]), task)

\* recent_load = sum(p.history[-10:]) / max(len(p.history[-10:]), 1)
\* score = (p.current_load / p.capacity) * (1 / p.processing_speed)
\*             * (1 + recent_load/200)
\* with the rounding of each of the six operations, in Python's order
ScoreKey(p) ==
    LET recent == LastN(p.history, RecentWindow)
        n == IF Len(recent) > 1 THEN Len(recent) ELSE 1
        recent_load == Quot(sum(recent), n)
    IN DoubleMul(DoubleMul(Quot(p.current_load, p.capacity),
                           IntDiv(1, p.processing_speed)),
                 OnePlus(DoubleDiv(recent_load, RecentScale)))

adaptive_distribution(procs, task) ==
    IF ZeroSpeed(procs) THEN Raises(procs, "ZeroDivisionError")
    ELSE AssignFirst(procs, Sorted([i \in 1..Len(procs) |-> ScoreKey(procs[i])]), task)

\* the if/elif chain of distribute_tasks; any other name assigns nothing
Strategy(alg, procs, task) ==
    IF alg = "round_robin" THEN round_robin(procs, task)
    ELSE IF alg = "least_loaded" THEN least_loaded(procs, task)
    ELSE IF alg = "weighted" THEN weighted_distribution(procs, task)
    ELSE IF alg = "adaptive" THEN adaptive_distribution(procs, task)
    ELSE NotAssigned(procs)

\* the while loop of distribute_tasks: the task is taken off the queue before
\* the strategy runs, so an exception leaves it on no processor and ends the loop
RECURSIVE Drain(_, _, _, _)
Drain(procs, queue, alg, log) ==
    IF queue = <<>>
    THEN [procs |-> procs, queue |-> queue, log |-> log, raised |-> "none"]
    ELSE LET task == Head(queue)
             r == Strategy(alg, procs, task)
             entry == [algorithm |-> alg, task |-> task, before |-> procs,
                       chosen |-> r.chosen]
         IN IF r.raised # "none"
            THEN [procs |-> procs, queue |-> Tail(queue),
                  log |-> Append(log, entry), raised |-> r.raised]
            ELSE Drain(r.procs, Tail(queue), alg, Append(log, entry))

\* the body of the for loop of process_cycle, for one processor
CycleBody(p) == process_tasks(IF p.tasks = <<>> THEN update_history(p) ELSE p)

\* the for loop of process_cycle over processors i..Len
RECURSIVE CycleFrom(_, _, _)
CycleFrom(procs, i, done) ==
    IF i > Len(procs) THEN [procs |-> procs, completed |-> done]
    ELSE LET r == CycleBody(procs[i])
         IN CycleFrom([procs EXCEPT ![i] = r.proc], i + 1, done \o r.completed)

\* ----------------------------------------------------- simulation thread
\* pc: "none" (no thread), "start", "while", "if", "generate", "distribute",
\* "select", "take", "pick", "assign", "process", "cycle", "remove", "notify",
\* "sleep", "exited"; target: the LoadBalancer instance whose run_simulation
\* the thread runs; log: the tasks the distribute_tasks in progress has
\* dequeued; dropped: how many tasks its passes took off the queue and gave to
\* no strategy; task: the task taken off the queue and not yet added to a
\* processor (none or one); branch: the test of the if/elif chain that comes
\* next; alg: the strategy entered; keys: the sort keys computed so far;
\* chosen: the position of the processor picked.
\* The list of processors the strategy or process_cycle works on is
\* LoadBalancer.processors itself (same) or a list that no longer is: its
\* first live processors are still the first ones of LoadBalancer.processors
\* and old are the ones after them.  i is the next position in that list, j
\* the next position in the task list of process_tasks, fin the local
\* completed_tasks of process_tasks, done the local completed of process_cycle.
NoThread ==
    [pc |-> "none", target |-> 0, log |-> <<>>, dropped |-> 0,
     task |-> <<>>, branch |-> 0, alg |-> "", keys |-> <<>>, chosen |-> 0,
     i |-> 0, j |-> 0, same |-> TRUE, live |-> 0, old |-> <<>>,
     fin |-> <<>>, done |-> <<>>]

\* threading.Thread(target=load_balancer.run_simulation, ...).start()
Thread(target) == [NoThread EXCEPT !.pc = "start", !.target = target]

Alive(t) == t.pc \notin {"none", "exited"}

\* the thread is working on a list of processors
Holding(t) == t.pc \in {"pick", "assign", "cycle", "remove"}

\* the locals of a call that has returned
Released(t) ==
    [t EXCEPT !.task = <<>>, !.branch = 0, !.alg = "", !.keys = <<>>, !.chosen = 0,
              !.i = 0, !.j = 0, !.same = TRUE, !.live = 0, !.old = <<>>,
              !.fin = <<>>, !.done = <<>>]

\* what the thread holds once change_processors has put a shorter list of
\* num_processors in LoadBalancer.processors: the list it works on keeps the
\* processors that were taken out
Detached(t, procs, num_processors) ==
    IF ~Holding(t) THEN t
    ELSE IF t.same
         THEN [t EXCEPT !.same = FALSE, !.live = num_processors,
                        !.old = SubSeq(procs, num_processors + 1, Len(procs))]
    ELSE IF num_processors < t.live
         THEN [t EXCEPT !.live = num_processors,
                        !.old = SubSeq(procs, num_processors + 1, t.live) \o @]
    ELSE t

\* the change_processors call in progress: pc is "idle" (none), "grow" (the
\* loop of line 449), "collect" (the loops of lines 454-456), "replace" (line
\* 458) or "requeue" (the loop of line 461); k is the position of the
\* processor whose tasks are being collected, j the next position in its task
\* list, or in removed_tasks while they are put back
NoHandler == [pc |-> "idle", num_processors |-> 0, k |-> 0, j |-> 0, removed |-> <<>>]

\* ------------------------------------------------------------------ state
\* LoadBalancer(num_processors)
Constructed(counts, thread, type) ==
    /\ load_type = type
    /\ \E n \in counts : processors = [i \in 1..n |-> Processor(i - 1)]
    /\ task_queue = <<>>
    /\ completed_tasks = 0
    /\ task_id_counter = 0
    /\ algorithm = "round_robin"
    /\ dispatch = <<>>
    /\ completed = <<>>
    /\ removed_tasks = <<>>
    /\ raised = "none"
    /\ cycles = 0
    /\ controls = 0
    /\ running = FALSE
    /\ paused = FALSE
    /\ load_balancer = 0
    /\ simulation_thread = thread
    /\ skipped = FALSE
    /\ handler = NoHandler

\* a LoadBalancer used on its own: nothing runs run_simulation
InitWith(counts) == Constructed(counts, NoThread, "int")

\* LoadBalancerApp(root): LoadBalancer(4) and its simulation thread, started
InitApp == Constructed({AppProcessors}, Thread(0), "int")

Init == InitWith(0..MaxProcs)

InitLong == InitWith(1..MaxLongProcs)

\* no change_processors call is in progress on the Tk thread, which runs one
\* handler at a time
Idle == handler.pc = "idle"

\* what a handler leaves behind when it is not the one that sets them
Observed(log, done, removed, exc) ==
    /\ dispatch' = log
    /\ completed' = done
    /\ removed_tasks' = removed
    /\ raised' = exc

\* LoadBalancer.add_task(load, execution_time)
AddTask(loads, times, maxTasks) ==
    /\ task_id_counter < maxTasks
    /\ \E load \in loads, execution_time \in times :
          task_queue' = Append(task_queue, Task(task_id_counter, load, execution_time))
    /\ task_id_counter' = task_id_counter + 1
    /\ Observed(<<>>, <<>>, <<>>, "none")
    /\ UNCHANGED <<processors, completed_tasks, algorithm, cycles, controls, flags, simulation_thread>>

\* LoadBalancer.distribute_tasks()
DistributeTasks ==
    /\ task_queue # <<>>
    /\ LET r == Drain(processors, task_queue, algorithm, <<>>) IN
          /\ processors' = r.procs
          /\ task_queue' = r.queue
          /\ Observed(r.log, <<>>, <<>>, r.raised)
    /\ UNCHANGED <<completed_tasks, task_id_counter, algorithm, cycles, controls, flags, simulation_thread>>

\* LoadBalancer.process_cycle()
ProcessCycle(maxCycles) ==
    /\ cycles < maxCycles
    /\ LET r == CycleFrom(processors, 1, <<>>) IN
          /\ processors' = r.procs
          /\ completed_tasks' = completed_tasks + Len(r.completed)
          /\ Observed(<<>>, r.completed, <<>>, "none")
    /\ cycles' = cycles + 1
    /\ UNCHANGED <<task_queue, task_id_counter, algorithm, controls, flags, simulation_thread>>

\* LoadBalancerApp.change_processors with the scale at num_processors
Grown(procs, num_processors) ==
    procs \o [k \in 1..(num_processors - Len(procs)) |-> Processor(Len(procs) + k - 1)]

\* collects the tasks of the first removed processor only
RemovedTasks_first_only(procs, num_processors) == procs[num_processors + 1].tasks

RemovedTasks(procs, num_processors) ==
    Concat([k \in 1..(Len(procs) - num_processors) |-> procs[num_processors + k].tasks])

\* the whole call, with nothing running beside it
ChangeProcessors ==
    \E num_processors \in 1..MaxProcs :
       /\ Idle
       /\ controls < MaxControls
       /\ controls' = controls + 1
       /\ num_processors # Len(processors)
       /\ IF num_processors > Len(processors)
          THEN /\ processors' = Grown(processors, num_processors)
               /\ task_queue' = task_queue
               /\ Observed(<<>>, <<>>, <<>>, "none")
          ELSE LET removed == RemovedTasks(processors, num_processors) IN
               /\ processors' = FirstN(processors, num_processors)
               /\ task_queue' = task_queue \o removed
               /\ Observed(<<>>, <<>>, removed, "none")
       /\ UNCHANGED <<completed_tasks, task_id_counter, algorithm, cycles, flags, simulation_thread>>

\* LoadBalancerApp.change_algorithm
ChangeAlgorithm ==
    /\ Idle
    /\ controls < MaxControls
    /\ controls' = controls + 1
    /\ \E a \in Algorithms : a # algorithm /\ algorithm' = a
    /\ Observed(<<>>, <<>>, <<>>, "none")
    /\ UNCHANGED <<processors, task_queue, completed_tasks, task_id_counter, cycles, flags, simulation_thread>>

\* LoadBalancerApp.change_algorithm when algorithm_var holds any of names:
\* the string is stored as it is
ChangeAlgorithmTo(names) ==
    /\ Idle
    /\ controls < MaxControls
    /\ controls' = controls + 1
    /\ \E a \in names : a # algorithm /\ algorithm' = a
    /\ Observed(<<>>, <<>>, <<>>, "none")
    /\ UNCHANGED <<processors, task_queue, completed_tasks, task_id_counter, cycles, flags, simulation_thread>>

\* LoadBalancerApp.update_processor_speed
UpdateProcessorSpeed(speeds) ==
    /\ Idle
    /\ controls < MaxControls
    /\ controls' = controls + 1
    /\ \E i \in 1..Len(processors), s \in speeds :
          /\ s # processors[i].processing_speed
          /\ processors' = [processors EXCEPT ![i].processing_speed = s]
    /\ Observed(<<>>, <<>>, <<>>, "none")
    /\ UNCHANGED <<task_queue, completed_tasks, task_id_counter, algorithm, cycles, flags, simulation_thread>>

\* Processor.process_tasks() called on one processor, outside process_cycle
ProcessTasks(maxTicks) ==
    /\ \E i \in 1..Len(processors) :
          /\ Len(processors[i].samples) < maxTicks
          /\ LET r == process_tasks(processors[i]) IN
                /\ processors' = [processors EXCEPT ![i] = r.proc]
                /\ Observed(<<>>, r.completed, <<>>, "none")
    /\ UNCHANGED <<task_queue, completed_tasks, task_id_counter, algorithm, cycles, controls, flags, simulation_thread>>

Next ==
    \/ AddTask(LoadSet, ExecSet, MaxTasks)
    \/ DistributeTasks
    \/ ProcessCycle(MaxCycles)
    \/ ChangeProcessors
    \/ ChangeAlgorithm
    \/ UpdateProcessorSpeed(SpeedSet)

Spec == Init /\ [][Next]_vars

\* long runs of few tasks: the history cap and multi-tick completion are reached
NextLong ==
    \/ AddTask(LongLoadSet, LongExecSet, MaxLongTasks)
    \/ DistributeTasks
    \/ ProcessCycle(MaxLongCycles)
    \/ UpdateProcessorSpeed(SpeedSet)

SpecLong == InitLong /\ [][NextLong]_vars

\* the Processor interface on its own: tasks are handed out and single
\* processors are ticked one call at a time
NextTick ==
    \/ AddTask(LoadSet, ExecSet, MaxTasks)
    \/ DistributeTasks
    \/ ProcessTasks(MaxTicks)

SpecTick == Init /\ [][NextTick]_vars

\* the LoadBalancer driven with algorithm names that are not checked
NextNames ==
    \/ AddTask(LoadSet, ExecSet, MaxTasks)
    \/ DistributeTasks
    \/ ProcessCycle(MaxCycles)
    \/ ChangeAlgorithmTo(NameSet)

SpecNames == Init /\ [][NextNames]_vars

\* one context calling add_task, distribute_tasks, process_cycle and changing
\* the processor count and the algorithm, on a LoadBalancer that has processors
InitSome == InitWith(1..MaxProcs)

NextSingle ==
    \/ AddTask(LoadSet, ExecSet, MaxTasks)
    \/ DistributeTasks
    \/ ProcessCycle(MaxCycles)
    \/ ChangeProcessors
    \/ ChangeAlgorithm

SpecSingle == InitSome /\ [][NextSingle]_vars

\* the algorithm stays round_robin: tasks are added, distributed and ticked,
\* and the processor list grows and shrinks
NextRoundRobin ==
    \/ AddTask(LoadSet, ExecSet, MaxTasks)
    \/ DistributeTasks
    \/ ProcessCycle(MaxCycles)
    \/ ChangeProcessors

SpecRoundRobin == Init /\ [][NextRoundRobin]_vars

\* few processors, more tasks of more sizes, and the algorithm selected
InitFew == InitWith(1..MaxAdaptiveProcs)

NextAdaptive ==
    \/ AddTask(AdaptiveLoadSet, ExecSet, MaxAdaptiveTasks)
    \/ DistributeTasks
    \/ ProcessCycle(MaxAdaptiveCycles)
    \/ ChangeAlgorithmTo({"adaptive"})

SpecAdaptive == InitFew /\ [][NextAdaptive]_vars

\* float loads, as generate_tasks draws them from random.gauss: 20.1 and 30.2
\* (a float literal is the double nearest to the decimal, which is what the
\* quotient gives).  (20.1 + 30.2) - 20.1 is not 30.2 in binary64.
FloatLoadSet == {IntDiv(201, 10), IntDiv(302, 10)}
FloatExecSet == {1, 2}

InitFloat == Constructed(1..MaxFloatProcs, NoThread, "float")

NextFloat ==
    \/ AddTask(FloatLoadSet, FloatExecSet, MaxFloatTasks)
    \/ DistributeTasks
    \/ ProcessCycle(MaxFloatCycles)
    \/ ChangeProcessors
    \/ ChangeAlgorithm

SpecFloat == InitFloat /\ [][NextFloat]_vars

\* ------------------------------------------------------------ application
\* The simulation thread and the Tk thread share the LoadBalancer without a
\* lock.  A step of either is the code up to and including one read or write
\* of what the other thread writes or reads: running, paused, algorithm, the
\* processors attribute and the list it refers to, a processor's
\* processing_speed and task list, the queue.

\* the simulation thread runs run_simulation of the application's LoadBalancer
Bound == simulation_thread.target = load_balancer

At(pc) == Bound /\ simulation_thread.pc = pc

Goto(pc) == simulation_thread' = [simulation_thread EXCEPT !.pc = pc]

\* run_simulation that never leaves its loop
AfterWhile_never_exits(r) == "if"

\* where run_simulation goes after testing self.running
AfterWhile(r) == IF r THEN "if" ELSE "exited"

\* run_simulation that does not look at paused
AfterIf_ignores_pause(p) == "generate"

\* where it goes after testing self.paused
AfterIf(p) == IF p THEN "sleep" ELSE "generate"

\* the names the if/elif chain of distribute_tasks tests, in its order
AlgorithmOrder == <<"round_robin", "least_loaded", "weighted", "adaptive">>

\* the list the thread works on
HeldLen(t) == IF t.same THEN Len(processors) ELSE t.live + Len(t.old)

Current(t, i) == t.same \/ i <= t.live

HeldAt(t, i) == IF Current(t, i) THEN processors[i] ELSE t.old[i - t.live]

\* a Task is one object wherever it is listed: what a tick does to it shows
\* in every list that holds it
SyncTasks(ts, task) ==
    [k \in 1..Len(ts) |-> IF ts[k].id = task.id THEN task ELSE ts[k]]

SyncProcessors(procs, task) ==
    [i \in 1..Len(procs) |-> [procs[i] EXCEPT !.tasks = SyncTasks(@, task)]]

\* run_simulation: self.running = True
RunStart ==
    /\ At("start")
    /\ running' = TRUE
    /\ Goto("while")
    /\ UNCHANGED <<load_type, processors, task_queue, completed_tasks, task_id_counter, algorithm,
                   dispatch, completed, removed_tasks, raised, cycles, controls,
                   paused, load_balancer, skipped, handler>>

\* run_simulation: while self.running
WhileTest ==
    /\ At("while")
    /\ running => cycles < MaxAppCycles
    /\ Goto(AfterWhile(running))
    /\ UNCHANGED <<processors, task_queue, completed_tasks, task_id_counter, algorithm,
                   dispatch, completed, removed_tasks, raised, cycles, controls, flags>>

\* run_simulation: if not self.paused
IfTest ==
    /\ At("if")
    /\ Goto(AfterIf(paused))
    /\ skipped' = (skipped \/ paused)
    /\ UNCHANGED <<load_type, processors, task_queue, completed_tasks, task_id_counter, algorithm,
                   dispatch, completed, removed_tasks, raised, cycles, controls,
                   running, paused, load_balancer, handler>>

\* run_simulation: task_generator() returns no task or one, which is added
Generate ==
    /\ At("generate")
    /\ \/ UNCHANGED <<task_queue, task_id_counter>>
       \/ /\ task_id_counter < MaxAppTasks
          /\ \E load \in AppLoadSet, execution_time \in AppExecSet :
                task_queue' = Append(task_queue, Task(task_id_counter, load, execution_time))
          /\ task_id_counter' = task_id_counter + 1
    /\ simulation_thread' = [simulation_thread EXCEPT !.pc = "distribute", !.log = <<>>]
    /\ Observed(<<>>, <<>>, <<>>, "none")
    /\ UNCHANGED <<processors, completed_tasks, algorithm, cycles, controls, flags>>

\* distribute_tasks, lines 80-81: the queue is found empty and the call
\* returns, or the next task is taken off it
DistributeStep ==
    /\ At("distribute")
    /\ IF task_queue = <<>>
       THEN /\ Goto("process")
            /\ Observed(simulation_thread.log, <<>>, <<>>, "none")
            /\ UNCHANGED task_queue
       ELSE /\ task_queue' = Tail(task_queue)
            /\ simulation_thread' =
                  [simulation_thread EXCEPT !.pc = "select", !.task = <<Head(task_queue)>>,
                                            !.branch = 1]
            /\ UNCHANGED <<dispatch, completed, removed_tasks, raised>>
    /\ UNCHANGED <<processors, completed_tasks, task_id_counter, algorithm, cycles,
                   controls, flags>>

\* the task of the thread leaves distribute_tasks on no processor
Unassigned(t) ==
    [Released(t) EXCEPT
        !.pc = "distribute", !.dropped = @ + 1,
        !.log = Append(@, [algorithm |-> algorithm, task |-> t.task[1],
                           before |-> processors, chosen |-> 0])]

\* distribute_tasks, one test of lines 83, 85, 87, 89: self.algorithm is read
\* and compared with one name; after the last test there is no else
SelectStep ==
    /\ At("select")
    /\ LET t == simulation_thread IN
       simulation_thread' =
          IF algorithm = AlgorithmOrder[t.branch]
          THEN [t EXCEPT !.pc = "take", !.alg = algorithm, !.branch = 0]
          ELSE IF t.branch < Len(AlgorithmOrder)
          THEN [t EXCEPT !.branch = @ + 1]
          ELSE Unassigned(t)
    /\ UNCHANGED <<processors, task_queue, completed_tasks, task_id_counter, algorithm,
                   dispatch, completed, removed_tasks, raised, cycles, controls, flags>>

\* the strategy reads self.processors: _round_robin and _adaptive_distribution
\* iterate the list itself, sorted() in the other two copies it first
TakeStep ==
    /\ At("take")
    /\ LET t == simulation_thread
           itself == t.alg \in {"round_robin", "adaptive"}
       IN simulation_thread' =
             [t EXCEPT !.pc = "pick", !.i = 1, !.keys = <<>>, !.same = itself,
                       !.live = IF itself THEN 0 ELSE Len(processors), !.old = <<>>]
    /\ UNCHANGED <<processors, task_queue, completed_tasks, task_id_counter, algorithm,
                   dispatch, completed, removed_tasks, raised, cycles, controls, flags>>

\* the sort key of a strategy
KeyOf(alg, p) ==
    IF alg = "least_loaded" THEN LoadKey(p)
    ELSE IF alg = "weighted" THEN RatioKey(p)
    ELSE ScoreKey(p)

\* one turn of the loop of the strategy over its list: _round_robin looks for
\* room (lines 95-96) and, at the end of the list, falls back to
\* self.processors[0] (lines 102-103); the other strategies compute the key of
\* one processor (lines 107, 116, 130-131) and, at the end, sort and take the
\* first (lines 108-111, 117-120, 135-140)
PickStep ==
    /\ At("pick")
    /\ LET t == simulation_thread
           task == t.task[1]
           more == t.i <= HeldLen(t)
           p == HeldAt(t, t.i)
           order == Sorted(t.keys)
           divides == t.alg \in {"weighted", "adaptive"} /\ p.processing_speed = 0
       IN IF more /\ t.alg # "round_robin" /\ divides
          THEN /\ simulation_thread' = [Unassigned(t) EXCEPT !.pc = "exited"]
               /\ Observed(simulation_thread'.log, <<>>, <<>>, "ZeroDivisionError")
          ELSE /\ UNCHANGED <<dispatch, completed, removed_tasks, raised>>
               /\ simulation_thread' =
                     IF t.alg = "round_robin"
                     THEN IF more
                          THEN IF AtLeast(get_available_capacity(p), task.load)
                               THEN [t EXCEPT !.pc = "assign", !.chosen = t.i]
                               ELSE [t EXCEPT !.i = @ + 1]
                          ELSE IF processors # <<>>
                          THEN [t EXCEPT !.pc = "assign", !.chosen = 1, !.same = TRUE,
                                         !.live = 0, !.old = <<>>]
                          ELSE Unassigned(t)
                     ELSE IF more
                          THEN [t EXCEPT !.keys = Append(@, KeyOf(t.alg, p)), !.i = @ + 1]
                          ELSE IF order # <<>>
                          THEN [t EXCEPT !.pc = "assign", !.chosen = order[1]]
                          ELSE Unassigned(t)
    /\ UNCHANGED <<processors, task_queue, completed_tasks, task_id_counter, algorithm,
                   cycles, controls, flags>>

\* the processors and the thread after the processor at position i of the
\* thread's list has become p
Put(t, i, p) ==
    IF Current(t, i)
    THEN [procs |-> [processors EXCEPT ![i] = p], old |-> t.old]
    ELSE [procs |-> processors, old |-> [t.old EXCEPT ![i - t.live] = p]]

\* the strategy's add_task on the processor it picked, which is still in
\* LoadBalancer.processors or is not
AssignStep ==
    /\ At("assign")
    /\ LET t == simulation_thread
           r == Put(t, t.chosen, add_task(HeldAt(t, t.chosen), t.task[1]))
           entry == [algorithm |-> t.alg, task |-> t.task[1], before |-> processors,
                     chosen |-> IF Current(t, t.chosen) THEN t.chosen ELSE 0]
       IN /\ processors' = r.procs
          /\ simulation_thread' =
                [Released(t) EXCEPT !.pc = "distribute", !.log = Append(@, entry)]
    /\ UNCHANGED <<task_queue, completed_tasks, task_id_counter, algorithm,
                   dispatch, completed, removed_tasks, raised, cycles, controls, flags>>

\* process_cycle, line 145: the for statement reads self.processors
ProcessStep ==
    /\ At("process")
    /\ simulation_thread' =
          [Released(simulation_thread) EXCEPT !.pc = "cycle", !.i = 1, !.j = 1]
    /\ UNCHANGED <<processors, task_queue, completed_tasks, task_id_counter, algorithm,
                   dispatch, completed, removed_tasks, raised, cycles, controls, flags>>

\* process_cycle and the first loop of process_tasks: the list is at its end
\* and completed_tasks is increased (line 151); or the next processor is idle
\* and gets its history samples (lines 147-149); or the next task of the
\* processor is decremented by the speed read at that moment (line 33), and
\* after the last one, when none has completed, the load is recorded
CycleStep ==
    /\ At("cycle")
    /\ LET t == simulation_thread
           p == HeldAt(t, t.i)
       IN IF t.i > HeldLen(t)
          THEN /\ completed_tasks' = completed_tasks + Len(t.done)
               /\ Observed(<<>>, t.done, <<>>, "none")
               /\ cycles' = cycles + 1
               /\ simulation_thread' = [Released(t) EXCEPT !.pc = "notify"]
               /\ UNCHANGED <<processors, task_queue, handler>>
          ELSE IF p.tasks = <<>>
          THEN LET r == Put(t, t.i, CycleBody(p).proc) IN
               /\ processors' = r.procs
               /\ simulation_thread' = [t EXCEPT !.i = @ + 1, !.j = 1, !.old = r.old]
               /\ UNCHANGED <<task_queue, completed_tasks, cycles, handler,
                              dispatch, completed, removed_tasks, raised>>
          ELSE LET task == Tick(p.tasks[t.j], p.processing_speed)
                   fin == IF Finished(task) THEN Append(t.fin, task) ELSE t.fin
                   last == t.j = Len(p.tasks)
                   procs == SyncProcessors(processors, task)
                   old == SyncProcessors(t.old, task)
                   q == IF Current(t, t.i) THEN procs[t.i] ELSE old[t.i - t.live]
                   recorded == last /\ fin = <<>>
               IN /\ processors' =
                        IF recorded /\ Current(t, t.i)
                        THEN [procs EXCEPT ![t.i] = update_history(q)] ELSE procs
                  /\ task_queue' = SyncTasks(task_queue, task)
                  /\ handler' = [handler EXCEPT !.removed = SyncTasks(@, task)]
                  /\ simulation_thread' =
                        [t EXCEPT
                           !.old = IF recorded /\ ~Current(t, t.i)
                                   THEN [old EXCEPT ![t.i - t.live] = update_history(q)]
                                   ELSE old,
                           !.fin = fin,
                           !.done = SyncTasks(@, task),
                           !.pc = IF last /\ fin # <<>> THEN "remove" ELSE "cycle",
                           !.i = IF recorded THEN @ + 1 ELSE @,
                           !.j = IF last THEN 1 ELSE @ + 1]
                  /\ UNCHANGED <<completed_tasks, cycles,
                                 dispatch, completed, removed_tasks, raised>>
    /\ UNCHANGED <<load_type, task_id_counter, algorithm, controls, running, paused,
                   load_balancer, skipped>>

\* the second loop of process_tasks: one completed task is removed (lines
\* 38-39); after the last one the load is recorded and the call returns
RemoveStep ==
    /\ At("remove")
    /\ LET t == simulation_thread
           last == t.j = Len(t.fin)
           removed == remove_task(HeldAt(t, t.i), t.fin[t.j])
           r == Put(t, t.i, IF last THEN update_history(removed) ELSE removed)
       IN /\ processors' = r.procs
          /\ simulation_thread' =
                IF last
                THEN [t EXCEPT !.pc = "cycle", !.old = r.old, !.done = @ \o t.fin,
                               !.fin = <<>>, !.i = @ + 1, !.j = 1]
                ELSE [t EXCEPT !.old = r.old, !.j = @ + 1]
    /\ UNCHANGED <<task_queue, completed_tasks, task_id_counter, algorithm,
                   dispatch, completed, removed_tasks, raised, cycles, controls, flags>>

\* run_simulation: update_callback()
Notify ==
    /\ At("notify")
    /\ Goto("sleep")
    /\ UNCHANGED <<processors, task_queue, completed_tasks, task_id_counter, algorithm,
                   dispatch, completed, removed_tasks, raised, cycles, controls, flags>>

\* run_simulation: time.sleep(0.1) returns
Sleep ==
    /\ At("sleep")
    /\ Goto("while")
    /\ UNCHANGED <<processors, task_queue, completed_tasks, task_id_counter, algorithm,
                   dispatch, completed, removed_tasks, raised, cycles, controls, flags>>

ThreadStep ==
    \/ RunStart
    \/ WhileTest
    \/ IfTest
    \/ Generate
    \/ DistributeStep
    \/ SelectStep
    \/ TakeStep
    \/ PickStep
    \/ AssignStep
    \/ ProcessStep
    \/ CycleStep
    \/ RemoveStep
    \/ Notify
    \/ Sleep

\* change_processors on the Tk thread, lines 441-447 and 451-454: the scale
\* is at num_processors, the list is to grow or to shrink
ChangeStart ==
    /\ Idle
    /\ controls < MaxControls
    /\ controls' = controls + 1
    /\ \E num_processors \in 1..MaxProcs :
          /\ num_processors # Len(processors)
          /\ handler' =
                IF num_processors > Len(processors)
                THEN [NoHandler EXCEPT !.pc = "grow", !.num_processors = num_processors]
                ELSE [NoHandler EXCEPT !.pc = "collect", !.num_processors = num_processors,
                                       !.k = num_processors + 1, !.j = 1]
    /\ UNCHANGED <<load_type, processors, task_queue, completed_tasks, task_id_counter, algorithm,
                   dispatch, completed, removed_tasks, raised, cycles,
                   running, paused, load_balancer, skipped, simulation_thread>>

\* line 450: one processor is appended to the list
GrowStep ==
    /\ handler.pc = "grow"
    /\ processors' = Append(processors, Processor(Len(processors)))
    /\ handler' = IF Len(processors) + 1 = handler.num_processors THEN NoHandler ELSE handler
    /\ removed_tasks' = <<>>
    /\ UNCHANGED <<load_type, task_queue, completed_tasks, task_id_counter, algorithm,
                   dispatch, completed, raised, cycles, controls,
                   running, paused, load_balancer, skipped, simulation_thread>>

\* lines 454-456: the next task of a processor that is to go is noted, or
\* its task list is at its end
CollectStep ==
    /\ handler.pc = "collect"
    /\ handler' =
          IF handler.k > Len(processors)
          THEN [handler EXCEPT !.pc = "replace", !.k = 0, !.j = 0]
          ELSE IF handler.j <= Len(processors[handler.k].tasks)
          THEN [handler EXCEPT !.removed = Append(@, processors[handler.k].tasks[handler.j]),
                               !.j = @ + 1]
          ELSE [handler EXCEPT !.k = @ + 1, !.j = 1]
    /\ UNCHANGED <<load_type, processors, task_queue, completed_tasks, task_id_counter, algorithm,
                   dispatch, completed, removed_tasks, raised, cycles, controls,
                   running, paused, load_balancer, skipped, simulation_thread>>

\* line 458: the shorter list replaces LoadBalancer.processors
ReplaceStep ==
    /\ handler.pc = "replace"
    /\ processors' = FirstN(processors, handler.num_processors)
    /\ simulation_thread' =
          IF Bound THEN Detached(simulation_thread, processors, handler.num_processors)
          ELSE simulation_thread
    /\ removed_tasks' = handler.removed
    /\ handler' = IF handler.removed = <<>> THEN NoHandler
                  ELSE [handler EXCEPT !.pc = "requeue", !.j = 1]
    /\ UNCHANGED <<load_type, task_queue, completed_tasks, task_id_counter, algorithm,
                   dispatch, completed, raised, cycles, controls,
                   running, paused, load_balancer, skipped>>

\* lines 461-462: one removed task is put back on the queue
RequeueStep ==
    /\ handler.pc = "requeue"
    /\ task_queue' = Append(task_queue, handler.removed[handler.j])
    /\ handler' = IF handler.j = Len(handler.removed) THEN NoHandler
                  ELSE [handler EXCEPT !.j = @ + 1]
    /\ UNCHANGED <<load_type, processors, completed_tasks, task_id_counter, algorithm,
                   dispatch, completed, removed_tasks, raised, cycles, controls,
                   running, paused, load_balancer, skipped, simulation_thread>>

\* LoadBalancerApp.change_processors running next to the simulation thread
ChangeStep ==
    \/ ChangeStart
    \/ GrowStep
    \/ CollectStep
    \/ ReplaceStep
    \/ RequeueStep

\* LoadBalancerApp.toggle_pause
TogglePause ==
    /\ Idle
    /\ paused' = ~paused
    /\ UNCHANGED <<load_type, processors, task_queue, completed_tasks, task_id_counter, algorithm,
                   dispatch, completed, removed_tasks, raised, cycles, controls,
                   running, load_balancer, simulation_thread, skipped, handler>>

\* the owner of the LoadBalancer clears its running flag
StopSimulation ==
    /\ running
    /\ running' = FALSE
    /\ UNCHANGED <<load_type, processors, task_queue, completed_tasks, task_id_counter, algorithm,
                   dispatch, completed, removed_tasks, raised, cycles, controls,
                   paused, load_balancer, simulation_thread, skipped, handler>>

\* LoadBalancerApp.reset_simulation: a new LoadBalancer of the same size with
\* the selected algorithm; a new thread on it only when the old one is dead
ResetSimulation ==
    /\ Idle
    /\ load_balancer < MaxResets
    /\ load_balancer' = load_balancer + 1
    /\ processors' = [i \in 1..Len(processors) |-> Processor(i - 1)]
    /\ task_queue' = <<>>
    /\ completed_tasks' = 0
    /\ task_id_counter' = 0
    /\ algorithm' = algorithm
    /\ running' = FALSE
    /\ paused' = FALSE
    /\ cycles' = 0
    /\ Observed(<<>>, <<>>, <<>>, "none")
    /\ simulation_thread' =
          IF Alive(simulation_thread) THEN simulation_thread
          ELSE Thread(load_balancer + 1)
    /\ UNCHANGED <<load_type, controls, skipped, handler>>

NextApp ==
    \/ ThreadStep
    \/ TogglePause
    \/ StopSimulation
    \/ ResetSimulation
    \/ ChangeStep
    \/ ChangeAlgorithm
    \/ UpdateProcessorSpeed(AppSpeedSet)

SpecApp == InitApp /\ [][NextApp]_vars

\* the loop and the buttons that start, pause and replace it
NextLoop ==
    \/ ThreadStep
    \/ TogglePause
    \/ StopSimulation
    \/ ResetSimulation

\* the simulation thread is scheduled again and again
SpecLoop == InitApp /\ [][NextLoop]_vars /\ WF_vars(ThreadStep)

\* ================================================================ claims
Procs == 1..Len(processors)

MinOf(S) == CHOOSE x \in S : \A y \in S : x <= y

\* how many elements of ts are the task with this id
Occurrences(ts, id) == Cardinality({k \in 1..Len(ts) : ts[k].id = id})

\* how many times the task with this id is held by the processors
Holders(procs, id) ==
    SumSeq([i \in 1..Len(procs) |-> Occurrences(procs[i].tasks, id)])

\* C1: on every processor current_load is the sum of the loads of the tasks
\* it owns, in every reachable state.  The sum is the one Python makes of the
\* task list as it is, sum(t.load for t in tasks): the exact sum for int
\* loads, and for float loads the sum that adds them afresh in list order.
C1_LoadIsSumOfTasks ==
    \A i \in Procs : processors[i].current_load = sum(TaskLoads(processors[i].tasks))

\* C2: with a non-empty processor sequence, any strategy and any speeds >= 0,
\* distribute_tasks leaves the queue empty and every task it dequeued on
\* exactly one processor.
C2_DistributeAssignsAll ==
    (dispatch # <<>> /\ processors # <<>>) =>
        /\ task_queue = <<>>
        /\ \A k \in 1..Len(dispatch) : Holders(processors, dispatch[k].task.id) = 1

\* the scenario of C3: three empty processors of capacity 100, round_robin,
\* three tasks of load 40 distributed in one pass
C3_Scenario ==
    /\ Len(dispatch) = 3
    /\ \A k \in 1..3 : dispatch[k].algorithm = "round_robin" /\ dispatch[k].task.load = 40
    /\ Len(dispatch[1].before) = 3
    /\ \A i \in 1..3 :
          /\ dispatch[1].before[i].capacity = 100
          /\ dispatch[1].before[i].tasks = <<>>
          /\ dispatch[1].before[i].current_load = 0

Chosen == [k \in 1..Len(dispatch) |-> dispatch[k].chosen]

\* C3 as stated: the three tasks go to the processors at Python index 0, 1, 2.
C3_OnePerProcessor == C3_Scenario => Chosen = <<1, 2, 3>>

\* C3 amended: the three tasks go to the processors at Python index 0, 0, 1:
\* the second task still fits the first processor (60 available).
C3_FirstFit == C3_Scenario => Chosen = <<1, 1, 2>>

C3_Witness ==
    /\ C3_Scenario
    /\ Len(processors[1].tasks) = 2
    /\ Len(processors[2].tasks) = 1
    /\ processors[3].tasks = <<>>

\* C4: round_robin gives each task to the lowest-index processor whose
\* capacity - current_load >= the task's load when it is scanned, and to the
\* processor at index 0 when none has that room.
Fits(e) ==
    {i \in 1..Len(e.before) : e.before[i].capacity - e.before[i].current_load >= e.task.load}

C4_RoundRobinRule ==
    \A k \in 1..Len(dispatch) :
        LET e == dispatch[k] IN
        (e.algorithm = "round_robin" /\ e.before # <<>>) =>
            e.chosen = IF Fits(e) # {} THEN MinOf(Fits(e)) ELSE 1

\* one pass in which a task went past the first processor and a later one
\* fell back to it because nothing had room
C4_Witness ==
    /\ \E k \in 1..Len(dispatch) :
          dispatch[k].algorithm = "round_robin" /\ dispatch[k].chosen > 1
    /\ \E k \in 1..Len(dispatch) :
          /\ dispatch[k].algorithm = "round_robin"
          /\ Len(dispatch[k].before) >= 2
          /\ Fits(dispatch[k]) = {}
          /\ dispatch[k].chosen = 1

\* C5: least_loaded gives each task to the processor of minimum current_load,
\* the lowest index among equals, with or without room for it.
LeastLoaded(e) ==
    {i \in 1..Len(e.before) :
        \A j \in 1..Len(e.before) : e.before[i].current_load <= e.before[j].current_load}

C5_LeastLoadedRule ==
    \A k \in 1..Len(dispatch) :
        LET e == dispatch[k] IN
        (e.algorithm = "least_loaded" /\ e.before # <<>>) =>
            e.chosen = MinOf(LeastLoaded(e))

\* a task that went to a later, strictly least loaded processor without room
C5_Witness ==
    \E k \in 1..Len(dispatch) :
        LET e == dispatch[k] IN
        /\ e.algorithm = "least_loaded"
        /\ e.chosen > 1
        /\ e.before[e.chosen].current_load > 0
        /\ e.before[e.chosen].current_load < e.before[1].current_load
        /\ e.before[e.chosen].capacity - e.before[e.chosen].current_load < e.task.load

\* C6: weighted gives each task to the processor of minimum
\* current_load / processing_speed, the lowest index among equals, with or
\* without room for it (the quotient exists: no speed is 0).
LeastRatio(e) ==
    {i \in 1..Len(e.before) :
        \A j \in 1..Len(e.before) :
            e.before[i].current_load * e.before[j].processing_speed
                <= e.before[j].current_load * e.before[i].processing_speed}

C6_WeightedRule ==
    \A k \in 1..Len(dispatch) :
        LET e == dispatch[k] IN
        (e.algorithm = "weighted" /\ e.before # <<>> /\ ~ZeroSpeed(e.before)) =>
            e.chosen = MinOf(LeastRatio(e))

\* two processors of equal load, speeds 1 and 2: the task goes to the second
C6_Witness ==
    \E k \in 1..Len(dispatch) :
        LET e == dispatch[k] IN
        /\ e.algorithm = "weighted"
        /\ Len(e.before) = 2
        /\ e.before[1].current_load = e.before[2].current_load
        /\ e.before[1].current_load > 0
        /\ e.before[1].processing_speed = 1
        /\ e.before[2].processing_speed = 2
        /\ e.chosen = 2

\* C7: a shrink from m to n processors keeps the first n processors as they
\* were, and puts each task of the m - n trailing ones on the queue once,
\* behind what was queued: the queue grows by exactly their number.
Trailing(n) == {i \in Procs : i > n}

TrailingCount(n) ==
    SumSeq([k \in 1..(Len(processors) - n) |-> Len(processors[n + k].tasks)])

C7_ShrinkStep ==
    Len(processors') < Len(processors) =>
        LET n == Len(processors') IN
        /\ \A i \in 1..n : processors'[i] = processors[i]
        /\ Len(task_queue') = Len(task_queue) + TrailingCount(n)
        /\ SubSeq(task_queue', 1, Len(task_queue)) = task_queue
        /\ \A i \in Trailing(n) : \A k \in 1..Len(processors[i].tasks) :
              LET t == processors[i].tasks[k] IN
              /\ Occurrences(task_queue', t.id) = 1
              /\ \E q \in 1..Len(task_queue') : task_queue'[q] = t
              /\ Holders(processors', t.id) = 0
        /\ \A q \in 1..Len(task_queue') :
              \/ q <= Len(task_queue)
              \/ \E i \in Trailing(n) : task_queue'[q].id \in IdSet(processors[i].tasks)

\* C7: every step of every behaviour that shortens the processor sequence
\* is such a shrink.
C7_ShrinkRequeues == [][C7_ShrinkStep]_vars

\* three processors holding tasks shrunk to one: two tasks are back on the queue
C7_Witness ==
    /\ Len(removed_tasks) = 2
    /\ Len(processors) = 1
    /\ processors[1].tasks # <<>>
    /\ Len(task_queue) >= 2

\* C8: each process_cycle decrements every owned task by its processor's
\* speed; the task is returned as completed and leaves the processor on that
\* tick exactly when the result is <= 0, and stays otherwise; with the
\* default speed 1 throughout, a task of execution time 5 completes on its
\* 5th tick.
C8_TickStep ==
    cycles' = cycles + 1 =>
        /\ \A i \in Procs : \A k \in 1..Len(processors[i].tasks) :
              LET t == processors[i].tasks[k]
                  r == t.remaining_time - processors[i].processing_speed
                  after == [t EXCEPT !.remaining_time = r, !.ticks = t.ticks + 1]
              IN IF r <= 0
                 THEN /\ Occurrences(completed', t.id) = 1
                      /\ Holders(processors', t.id) = 0
                 ELSE /\ Occurrences(completed', t.id) = 0
                      /\ \E k2 \in 1..Len(processors'[i].tasks) :
                            processors'[i].tasks[k2] = after
        /\ \A c \in 1..Len(completed') :
              /\ completed'[c].remaining_time <= 0
              /\ (controls = 0 /\ completed'[c].execution_time = 5) =>
                     completed'[c].ticks = 5

\* C8: every process_cycle step of every behaviour ticks and completes tasks
\* that way.
C8_CompletesOnFirstTickAtZero == [][C8_TickStep]_vars

\* a task of execution time 5 returned as completed on its 5th tick at speed 1
C8_Witness ==
    /\ controls = 0
    /\ \E c \in 1..Len(completed) :
          /\ completed[c].execution_time = 5
          /\ completed[c].ticks = 5
          /\ completed[c].remaining_time = 0

\* C9: each process_cycle adds exactly one history sample to every processor,
\* idle or not: k cycles after construction (the processor set unchanged)
\* every processor has min(k, 100) samples.
C9_OneSamplePerCycle ==
    controls = 0 =>
        \A i \in Procs :
            Len(processors[i].history) = IF cycles < HistoryCap THEN cycles ELSE HistoryCap

\* C10: history never holds more than 100 samples and is always the most
\* recent (up to 100) recorded values, in the order they were recorded.
C10_HistoryIsRecentSamples ==
    \A i \in Procs :
        /\ Len(processors[i].history) <= HistoryCap
        /\ processors[i].history = LastN(processors[i].samples, HistoryCap)

\* more than 100 samples were recorded, of different values, and the oldest
\* ones are gone
C10_Witness ==
    \E i \in Procs :
        /\ Len(processors[i].samples) > HistoryCap + 1
        /\ Len(processors[i].history) = HistoryCap
        /\ processors[i].history[1] # processors[i].history[HistoryCap]
        /\ processors[i].samples[1] # processors[i].history[1]

\* C11: process_tasks on a processor that owns no task leaves current_load
\* and tasks as they were, returns no completed task, and appends exactly one
\* history sample, equal to the current load.
C11_IdleTickStep ==
    \A i \in Procs :
        (/\ Len(processors') = Len(processors)
         /\ processors[i].tasks = <<>>
         /\ processors'[i].samples # processors[i].samples) =>
            /\ processors'[i].current_load = processors[i].current_load
            /\ processors'[i].tasks = <<>>
            /\ completed' = <<>>
            /\ processors'[i].samples =
                   Append(processors[i].samples, processors[i].current_load)
            /\ processors'[i].history =
                   LastN(Append(processors[i].history, processors[i].current_load),
                         HistoryCap)

\* C11: every process_tasks call on an idle processor behaves that way.
C11_IdleTickAppendsOneSample == [][C11_IdleTickStep]_vars

\* a processor ticked while busy, ticked again when its task completed, then
\* ticked once more while idle
C11_Witness ==
    \E i \in Procs :
        /\ processors[i].tasks = <<>>
        /\ processors[i].samples = <<70, 0, 0>>
        /\ processors[i].history = <<70, 0, 0>>

\* C12: an algorithm name other than the four is refused: the LoadBalancer
\* never holds one, never runs a distribution pass under one, and no task
\* leaves the queue unassigned because of one.
C12_UnknownNameRejected ==
    /\ algorithm \in Algorithms
    /\ \A k \in 1..Len(dispatch) :
          /\ dispatch[k].algorithm \in Algorithms
          /\ (dispatch[k].before # <<>> /\ raised = "none") =>
                 Holders(processors, dispatch[k].task.id) = 1

\* the ids of the tasks waiting in the queue or owned by a processor
Held(procs, queue) ==
    IdSet(queue) \cup UNION {IdSet(procs[i].tasks) : i \in 1..Len(procs)}

\* C13: with no processors, distribute_tasks under any strategy takes every
\* queued task off the queue and drops it: the queue ends empty, no
\* processor owns the task, nothing is raised, completed_tasks is unchanged;
\* and a task that is neither queued nor owned never comes back.
C13_EmptyStep ==
    /\ (processors = <<>> /\ dispatch' # <<>>) =>
          /\ task_queue' = <<>>
          /\ processors' = <<>>
          /\ raised' = "none"
          /\ completed_tasks' = completed_tasks
          /\ Len(dispatch') = Len(task_queue)
          /\ \A k \in 1..Len(dispatch') :
                dispatch'[k].task = task_queue[k] /\ dispatch'[k].chosen = 0
    /\ Held(processors', task_queue') \subseteq
          Held(processors, task_queue) \cup {task_id_counter}

\* C13: every step of every behaviour is such a step.
C13_EmptyProcessorsDrop == [][C13_EmptyStep]_vars

\* two tasks dropped in one pass under a strategy that computes a ratio
C13_Witness ==
    /\ processors = <<>>
    /\ Len(dispatch) = 2
    /\ dispatch[1].algorithm = "weighted"
    /\ dispatch[2].chosen = 0
    /\ task_queue = <<>>
    /\ task_id_counter = 2

\* C19: adaptive gives each task to the processor of minimum
\* (current_load / capacity) * (1 / processing_speed) * (1 + recent / 200),
\* recent being the mean of the last 10 history samples (of all of them when
\* fewer, 0 when none), the lowest index among equals, with or without room
\* for it; so a processor of load 0 with the lowest index gets the task when
\* there is one (the quotient exists: no speed is 0).
RecentSamples(p) == LastN(p.history, 10)

\* the score as numerator and denominator, the mean taken over n samples
ScoreOf(p) ==
    LET n == IF RecentSamples(p) = <<>> THEN 1 ELSE Len(RecentSamples(p))
    IN <<p.current_load * (200 * n + SumSeq(RecentSamples(p))),
         p.capacity * p.processing_speed * 200 * n>>

LeastScore(e) ==
    {i \in 1..Len(e.before) :
        \A j \in 1..Len(e.before) :
            ~FracLess(ScoreOf(e.before[j])[1], ScoreOf(e.before[j])[2],
                      ScoreOf(e.before[i])[1], ScoreOf(e.before[i])[2])}

ZeroLoad(e) == {i \in 1..Len(e.before) : e.before[i].current_load = 0}

C19_AdaptiveRule ==
    \A k \in 1..Len(dispatch) :
        LET e == dispatch[k] IN
        (e.algorithm = "adaptive" /\ e.before # <<>> /\ ~ZeroSpeed(e.before)) =>
            /\ e.chosen = MinOf(LeastScore(e))
            /\ ZeroLoad(e) # {} => e.chosen = MinOf(ZeroLoad(e))

\* the task went to a processor whose load / speed is not the smallest: its
\* recent history is what made its score the lowest
C19_Witness ==
    \E k \in 1..Len(dispatch) :
        LET e == dispatch[k] IN
        /\ e.algorithm = "adaptive"
        /\ e.chosen # 0
        /\ \E i \in 1..Len(e.before) :
              /\ e.before[i].current_load * e.before[e.chosen].processing_speed
                    < e.before[e.chosen].current_load * e.before[i].processing_speed
              /\ e.before[e.chosen].current_load > 0

\* how many tasks wait in the queue or are owned by a processor
InSystem(procs, queue) ==
    Len(queue) + SumSeq([i \in 1..Len(procs) |-> Len(procs[i].tasks)])

\* C20: from a single context, with at least one processor and one of the
\* four algorithms, after every add_task, distribute_tasks, process_cycle and
\* processor-count change task_id_counter equals the queue depth plus the
\* tasks owned by the processors plus completed_tasks, every task that is
\* queued or owned is in exactly one place, and completed_tasks has not
\* decreased.
C20_ConservingStep ==
    /\ task_id_counter' =
          InSystem(processors', task_queue') + completed_tasks'
    /\ \A id \in Held(processors', task_queue') :
          Occurrences(task_queue', id) + Holders(processors', id) = 1
    /\ completed_tasks' >= completed_tasks
    /\ processors' # <<>>
    /\ algorithm' \in Algorithms

\* C20: every step of every such behaviour conserves the tasks that way.
C20_TaskConservation == [][C20_ConservingStep]_vars

\* after a shrink: one task completed, one owned, one back on the queue
C20_Witness ==
    /\ completed_tasks = 1
    /\ removed_tasks # <<>>
    /\ task_queue # <<>>
    /\ \E i \in Procs : processors[i].tasks # <<>>
    /\ task_id_counter = 3

\* the simulation thread has taken a step
Stepped == simulation_thread' # simulation_thread

\* C14: an iteration of run_simulation that finds paused set generates,
\* distributes and processes nothing: the queue, task_id_counter, the
\* processors (tasks, current_load, history) and completed_tasks are as they
\* were, update_callback is not called, and the loop goes on to its sleep and
\* its next test without exiting; an iteration that finds paused cleared runs
\* the full cycle.
C14_PausedStep ==
    /\ (At("if") /\ paused /\ Stepped) =>
          /\ simulation_thread'.pc = "sleep"
          /\ UNCHANGED <<processors, task_queue, task_id_counter, completed_tasks>>
    /\ (At("sleep") /\ Stepped) =>
          /\ simulation_thread'.pc = "while"
          /\ UNCHANGED <<processors, task_queue, task_id_counter, completed_tasks>>
    /\ (At("while") /\ running /\ Stepped) =>
          /\ simulation_thread'.pc = "if"
          /\ UNCHANGED <<processors, task_queue, task_id_counter, completed_tasks>>
    /\ (At("if") /\ ~paused /\ Stepped) => simulation_thread'.pc = "generate"

\* C14: every step of the simulation thread at those points is such a step.
C14_PausedIterationIdle == [][C14_PausedStep]_vars

\* an iteration was skipped on pause and a later one has run its full cycle
C14_Witness ==
    /\ skipped
    /\ ~paused
    /\ At("notify")
    /\ completed_tasks > 0

Looping ==
    simulation_thread.pc \in
        {"while", "if", "generate", "distribute", "select", "take", "pick", "assign",
         "process", "cycle", "remove", "notify", "sleep"}

\* C15: once running is false, the loop of run_simulation starts no further
\* iteration: its next test of running ends it, and it gets there (at most
\* the iteration in progress finishes).
C15_StopStep ==
    (At("while") /\ ~running /\ Stepped) => simulation_thread'.pc = "exited"

\* C15: every test of running that finds it false ends the loop, and a loop
\* whose flag is false reaches that test.
C15_StopExits ==
    /\ [][C15_StopStep]_vars
    /\ (Bound /\ Looping /\ ~running) ~> (~Bound \/ simulation_thread.pc = "exited")

\* the loop has exited after a cycle that completed a task
C15_Witness ==
    /\ Bound
    /\ simulation_thread.pc = "exited"
    /\ ~running
    /\ completed_tasks > 0

\* the tasks that are in a local variable on their way to the queue, to a
\* processor or to the local list of process_cycle: the task distribute_tasks
\* has taken, the tasks change_processors has still to put back, the completed
\* tasks process_tasks has already removed
InHand ==
    Len(simulation_thread.task)
        + (IF handler.pc = "requeue" THEN Len(handler.removed) - handler.j + 1 ELSE 0)
        + (IF simulation_thread.pc = "remove" THEN simulation_thread.j - 1 ELSE 0)

\* C16: a processor-count change made while a tick is in progress does not
\* lose a task and does not leave a task both re-queued and counted as
\* completed: apart from the tasks no strategy was entered for, every task is
\* queued, owned by a processor, in a local variable on its way, completed
\* in the process_cycle in progress or counted as completed, once.
C16_CountChangeAtomic ==
    Bound =>
        /\ task_id_counter - simulation_thread.dropped =
              InSystem(processors, task_queue) + InHand
                  + completed_tasks + Len(simulation_thread.done)
        /\ \A k \in 1..Len(simulation_thread.done) :
              simulation_thread.done[k].id \notin IdSet(task_queue)

\* C17: all the tasks one distribute_tasks call dequeues are dispatched under
\* the same algorithm, whenever the selection changes.
C17_OneAlgorithmPerPass ==
    \A k \in 1..Len(simulation_thread.log) :
        simulation_thread.log[k].algorithm = simulation_thread.log[1].algorithm

\* C18: reset_simulation puts a fresh LoadBalancer in place (same processor
\* count, the selected algorithm, empty queue, completed_tasks 0) and from
\* then on a live simulation thread runs the loop of that new instance.
C18_ResetStep ==
    load_balancer' # load_balancer =>
        /\ Len(processors') = Len(processors)
        /\ \A i \in 1..Len(processors') : processors'[i] = Processor(i - 1)
        /\ algorithm' = algorithm
        /\ task_queue' = <<>>
        /\ completed_tasks' = 0
        /\ Alive(simulation_thread')
        /\ simulation_thread'.target = load_balancer'

\* C18: every reset is such a step.
C18_ResetTicksNewInstance == [][C18_ResetStep]_vars

\* C22: with round_robin throughout, only the processor at Python index 0 can
\* hold more than its capacity: every other processor has
\* current_load <= capacity in every reachable state.
C22_OnlyFirstOversubscribed ==
    /\ algorithm = "round_robin"
    /\ \A i \in Procs : i > 1 => processors[i].current_load <= processors[i].capacity

\* the first processor is over its capacity next to a loaded second one
C22_Witness ==
    /\ Len(processors) >= 2
    /\ processors[1].current_load > processors[1].capacity
    /\ processors[2].current_load > 0
    /\ processors[2].current_load <= processors[2].capacity

\* C21: with the loop running, a processor present, one of the four
\* algorithms and every speed > 0, no task is ever stuck: a task that is not
\* yet completed is in the queue, owned by a processor of the LoadBalancer or
\* in a local variable on its way there, where the next iterations assign it
\* and tick it to completion, also after a processor-count change.
C21_NoTaskStuck ==
    (Bound /\ processors # <<>> /\ algorithm \in Algorithms /\ ~ZeroSpeed(processors)) =>
        task_id_counter - completed_tasks - Len(simulation_thread.done)
            <= InSystem(processors, task_queue) + InHand
====
